---- MODULE Spec2Model ----
(***************************************************************************)
(* nkdsu, apps/vote/mixins.py: the views that resolve a date in a URL to   *)
(* one Show (ShowDetailMixin, ThisShowDetailMixin) and the archive listing *)
(* by year (ArchiveList).                                                  *)
(*                                                                         *)
(* Time is a window of NumDays calendar days that starts on WindowStart;   *)
(* every day has DayLen instants and the first instant of a day is its     *)
(* midnight.  An instant is the number of instants since the window's      *)
(* first midnight, in the server's time zone (settings.TIME_ZONE); dates   *)
(* are real calendar dates (datetime.date).                                *)
(***************************************************************************)
EXTENDS Integers, Sequences, FiniteSets

NumDays == 3
DayLen == 2
MaxEpisodes == 3
MaxPk == 3

\* The window starts on the last day of a year, so that it spans two years.
WindowStart == [year |-> 2023, month |-> 12, day |-> 31]

\* The lengths (in instants) a Show may have.
Durations == {1, 2}

-----------------------------------------------------------------------------
(* datetime: the calendar *)

IsLeap(y) == (y % 4 = 0) /\ ((y % 100 # 0) \/ (y % 400 = 0))

DaysInMonth(y, m) ==
    IF m = 2 THEN (IF IsLeap(y) THEN 29 ELSE 28)
    ELSE IF m \in {4, 6, 9, 11} THEN 30 ELSE 31

RECURSIVE DaysBeforeMonth(_, _)
DaysBeforeMonth(y, m) ==
    IF m <= 1 THEN 0 ELSE DaysBeforeMonth(y, m - 1) + DaysInMonth(y, m - 1)

DaysBeforeYear(y) ==
    ((y - 1) * 365) + ((y - 1) \div 4) - ((y - 1) \div 100) + ((y - 1) \div 400)

\* date.toordinal()
Ordinal(d) == DaysBeforeYear(d.year) + DaysBeforeMonth(d.year, d.month) + d.day

NextDay(d) ==
    IF d.day < DaysInMonth(d.year, d.month)
    THEN [d EXCEPT !.day = d.day + 1]
    ELSE IF d.month < 12
         THEN [year |-> d.year, month |-> d.month + 1, day |-> 1]
         ELSE [year |-> d.year + 1, month |-> 1, day |-> 1]

RECURSIVE AddDays(_, _)
AddDays(d, n) == IF n = 0 THEN d ELSE AddDays(NextDay(d), n - 1)

Days == 0 .. (NumDays - 1)
DateTable == [i \in Days |-> AddDays(WindowStart, i)]
WindowDates == {DateTable[i] : i \in Days}
WindowYears == {d.year : d \in WindowDates}

Horizon == NumDays * DayLen
Instants == 0 .. (Horizon - 1)

\* datetime.date() of an instant of the window
DateOf(t) == DateTable[t \div DayLen]

\* timezone.make_aware(naive_date, current timezone): midnight of the date
make_aware(d) == (Ordinal(d) - Ordinal(WindowStart)) * DayLen

-----------------------------------------------------------------------------
(* Date strings.  A string "a-b-c" is the sequence of its three fields; a  *)
(* field is its number of digits and its value, and a field that is not a  *)
(* number has no digits.                                                   *)

Field(n, v) == [digits |-> n, val |-> v]
NotANumber == Field(0, 0)

ValueError == [year |-> 0, month |-> 0, day |-> 0]

date_fmt == "%Y-%m-%d"
legacy_fmt == "%d-%m-%Y"

\* One directive of a format against one field of the string.
MatchesDirective(f, directive) ==
    CASE directive = "%Y" -> f.digits = 4
      [] directive = "%m" -> f.digits \in {1, 2} /\ f.val \in 1 .. 12
      [] directive = "%d" -> f.digits \in {1, 2} /\ f.val \in 1 .. 31

Directives(fmt) ==
    IF fmt = date_fmt THEN <<"%Y", "%m", "%d">> ELSE <<"%d", "%m", "%Y">>

\* datetime.datetime.strptime(s, fmt), as a date (the time of day is 00:00)
strptime(s, fmt) ==
    LET ds == Directives(fmt)
        y == IF fmt = date_fmt THEN s[1].val ELSE s[3].val
        m == s[2].val
        d == IF fmt = date_fmt THEN s[3].val ELSE s[1].val
    IN IF /\ Len(s) = 3
          /\ \A i \in 1 .. 3 : MatchesDirective(s[i], ds[i])
          /\ y >= 1
          /\ d <= DaysInMonth(y, m)
       THEN [year |-> y, month |-> m, day |-> d]
       ELSE ValueError

\* date.strftime('%Y-%m-%d')
strftime(d) == <<Field(4, d.year), Field(2, d.month), Field(2, d.day)>>

LegacyString(d) == <<Field(2, d.day), Field(2, d.month), Field(4, d.year)>>

\* The same date without the leading zeros, where it has any.
UnpaddedString(d) ==
    <<Field(4, d.year),
      Field(IF d.month < 10 THEN 1 ELSE 2, d.month),
      Field(IF d.day < 10 THEN 1 ELSE 2, d.day)>>

\* kwargs.get('date') is None
NoDateStr == << >>

BadStrings ==
    { <<NotANumber, NotANumber, NotANumber>>,
      <<Field(4, WindowStart.year), Field(2, 12), Field(2, 32)>>,
      <<Field(2, 31), Field(2, 12), Field(2, 23)>> }

DateStrings ==
    {strftime(d) : d \in WindowDates} \cup {LegacyString(d) : d \in WindowDates}
        \cup {UnpaddedString(d) : d \in WindowDates} \cup BadStrings

-----------------------------------------------------------------------------
(* The Show table.  A row is a Show: its pk (the id the database gave it   *)
(* when it was created, never given twice), its showtime and its end (both *)
(* instants).  Shows last one of Durations, do not overlap, and so are    *)
(* totally ordered by showtime and by end.  At most MaxPk rows are ever    *)
(* created.                                                                *)

\* The showtime and end a Show may be created with
Shows == {[showtime |-> t, end |-> t + n] : t \in Instants, n \in Durations}

\* The row created with the next id of the table's sequence
Row(id, e) == [pk |-> id, showtime |-> e.showtime, end |-> e.end]

Overlap(a, b) == a.showtime < b.end /\ b.showtime < a.end

\* None, for self.date
None == 0 - 1

\* raise Http404, where a Show was expected
Http404 == [pk |-> None, showtime |-> None, end |-> None]

\* An exception nothing catches, where Show.current() was to give a Show
DoesNotExist == [pk |-> None - 2, showtime |-> None - 2, end |-> None - 2]

\* An attribute not set yet; no value stored under a key of self._memoized
Nothing == [pk |-> None - 1, showtime |-> None - 1, end |-> None - 1]

VARIABLES
    store,      \* Show.objects: the rows of the Show table
    next_pk,    \* the id the next row created will get
    now,        \* timezone.now()
    pc,         \* where the request in hand is: "idle", "render", "archive"
                \* or "done"
    view,       \* the class of the view instance serving the request
    kwargs,     \* the URL's keyword arguments: date, year
    date,       \* self.date
    memo,       \* self._memoized: per memoized method, the value it returned
    object,     \* self.object
    response,   \* what get() returned or raised
    context,    \* the template context built by get_context_data()
    queries,    \* how many times this request has queried the Show table
    engine,     \* the path get_years takes: "native" or "fallback"
    todo,       \* the queries ArchiveList has still to send, in order
    frame,      \* what ArchiveList holds between its queries
    changed     \* whether the table or the clock changed under the request

vars == <<store, next_pk, now, pc, view, kwargs, date, memo, object, response,
          context, queries, engine, todo, frame, changed>>

-----------------------------------------------------------------------------
(* QuerySet operations *)

\* showtime__year
YearOf(e) == DateOf(e.showtime).year

\* The value a row is ordered by
Key(e, field) == IF field = "showtime__year" THEN YearOf(e) ELSE e[field]

\* The element of a non-empty qs that order_by(field)[0] yields, or with
\* descending, order_by('-field')[0].
First(qs, field, descending) ==
    CHOOSE e \in qs : \A o \in qs :
        IF descending THEN Key(o, field) <= Key(e, field)
        ELSE Key(e, field) <= Key(o, field)

\* qs.order_by(...)[0], with the IndexError of an empty qs turned into Http404
FirstOr404(qs, field, descending) ==
    IF qs = {} THEN Http404 ELSE First(qs, field, descending)

\* Show.at(time): the Show whose [showtime, end) holds time; DoesNotExist is
\* reported as Http404, which is what its only caller here turns it into.
at(st, time) ==
    LET qs == {e \in st : e.showtime <= time /\ time < e.end}
    IN FirstOr404(qs, "showtime", FALSE)

\* Show.current(): the Show whose [showtime, end) holds now, looked up and
\* nothing written.  With none in progress there is no Show to return, and
\* line 174, which takes .pk of the result and catches nothing, ends in an
\* exception: the Show.DoesNotExist that lines 133-134 expect of Show.at,
\* or the AttributeError of None.pk.  Either is reported as DoesNotExist.
current(st, t) ==
    LET qs == {e \in st : e.showtime <= t /\ t < e.end}
    IN IF qs = {} THEN DoesNotExist ELSE First(qs, "showtime", FALSE)

-----------------------------------------------------------------------------
(* memoize, and the get_object methods *)

Methods == {"get_object", "_get_object"}
EmptyMemo == [k \in Methods |-> Nothing]

\* The outcome of a call: the value returned (or Http404), the instance's
\* cache after it, and how many times the table was queried.
Outcome(value, cache, ran) == [value |-> value, cache |-> cache, ran |-> ran]

\* @memoize: body runs when nothing is stored under key, and what it returns
\* is stored; an exception stores nothing.
memoize(cache, key, body) ==
    IF cache[key] # Nothing THEN Outcome(cache[key], cache, 0)
    ELSE IF body.value = Http404 THEN body
    ELSE Outcome(body.value, [body.cache EXCEPT ![key] = body.value], body.ran)

default_to_current(v) == v = "DefaultToCurrent"

\* A lookup by date that takes the last Show after the date, not the first.
LocateShowLatest(v, d, st, t) ==
    IF d = None
    THEN FirstOr404(IF ~default_to_current(v)
                    THEN {e \in st : e.end < t} ELSE st, "end", TRUE)
    ELSE FirstOr404({e \in st : e.showtime > d}, "showtime", TRUE)

\* A lookup without a date that never filters on end.
LocateShowUnfiltered(v, d, st, t) ==
    IF d = None
    THEN FirstOr404(st, "end", TRUE)
    ELSE FirstOr404({e \in st : e.showtime > d}, "showtime", FALSE)

\* The body of ShowDetailMixin._get_object
LocateShow(v, d, st, t) ==
    IF d = None
    THEN LET all == st
             qs == IF ~default_to_current(v)
                   THEN {e \in all : e.end < t} ELSE all
         IN FirstOr404(qs, "end", TRUE)
    ELSE LET qs == {e \in st : e.showtime > d}
         IN FirstOr404(qs, "showtime", FALSE)

_get_object(v, cache, d, st, t) ==
    memoize(cache, "_get_object", Outcome(LocateShow(v, d, st, t), cache, 1))

\* A get_object that asks the table again on every call.
get_object_requery(v, cache, d, st, t) ==
    Outcome(LocateShow(v, d, st, t), cache, 1)

\* LetMemoizeGetObject.get_object, called without a queryset
get_object(v, cache, d, st, t) == _get_object(v, cache, d, st, t)

\* ThisShowDetailMixin.get_object
ThisShow_get_object(v, cache, d, st, t) ==
    memoize(cache, "get_object",
            IF d = None THEN Outcome(at(st, t), cache, 1)
            ELSE get_object(v, cache, d, st, t))

\* self.get_object(), by the class of self
call_get_object(v, cache, d, st, t) ==
    IF v = "ThisShowDetail" THEN ThisShow_get_object(v, cache, d, st, t)
    ELSE get_object(v, cache, d, st, t)

-----------------------------------------------------------------------------
(* Responses *)

NoResponse == [status |-> "none", location |-> << >>]
Proceed == [status |-> "Proceed", location |-> << >>]
Raised404 == [status |-> "Http404", location |-> << >>]
RaisedDoesNotExist == [status |-> "DoesNotExist", location |-> << >>]
\* redirect(reverse(name, kwargs with date = url_date))
redirect(url_date) == [status |-> "Redirect", location |-> url_date]

NoKwargs == [date |-> NoDateStr, year |-> 0]
NoContext == [show |-> Nothing, years |-> << >>, year |-> 0, object_list |-> << >>]

\* ArchiveList between requests: no queryset built, no year computed
NoFrame == [pk |-> Nothing.pk, listing_pk |-> Nothing.pk, year |-> 0]

-----------------------------------------------------------------------------
(* ShowDetailMixin.get *)

\* Lines 75-96: the date of the URL, parsed.
ParseDate(s) ==
    IF s = NoDateStr
    THEN [raised |-> FALSE, date |-> None, fell_back |-> FALSE]
    ELSE IF strptime(s, date_fmt) # ValueError
    THEN [raised |-> FALSE, date |-> make_aware(strptime(s, date_fmt)),
          fell_back |-> FALSE]
    ELSE IF strptime(s, legacy_fmt) # ValueError
    THEN [raised |-> FALSE, date |-> make_aware(strptime(s, legacy_fmt)),
          fell_back |-> TRUE]
    ELSE [raised |-> TRUE, date |-> None, fell_back |-> FALSE]

\* A decision that renders whenever no date was asked for.
DecideProceedWithoutDate(fell_back, d, obj) ==
    IF d = None THEN Proceed
    ELSE IF ~fell_back /\ DateOf(obj.showtime) = DateOf(d) THEN Proceed
    ELSE redirect(strftime(DateOf(obj.showtime)))

\* Lines 100-113: render, or redirect to the Show's own date.
Decide(fell_back, d, obj) ==
    IF /\ ~fell_back
       /\ d # None
       /\ DateOf(obj.showtime) = DateOf(d)
    THEN Proceed
    ELSE redirect(strftime(DateOf(obj.showtime)))

\* What get() of a view of class v answers to the date string s, up to its
\* call of super().get(): the response, and the instance's attributes.
Resolve(v, s, st, t) ==
    LET p == ParseDate(s)
        call == call_get_object(v, EmptyMemo, p.date, st, t)
    IN IF p.raised
       THEN [response |-> Raised404, date |-> None, object |-> Nothing,
             memo |-> EmptyMemo, queries |-> 0]
       ELSE IF call.value = Http404
       THEN [response |-> Raised404, date |-> p.date, object |-> Nothing,
             memo |-> call.cache, queries |-> call.ran]
       ELSE [response |-> Decide(p.fell_back, p.date, call.value),
             date |-> p.date, object |-> call.value,
             memo |-> call.cache, queries |-> call.ran]

DetailViews == {"ShowDetail", "DefaultToCurrent", "ThisShowDetail"}

\* get(), to the point where it answers or hands over to DetailView.get
Get(v, s) ==
    /\ pc = "idle"
    /\ \E r \in {Resolve(v, s, store, now)} :
          /\ response' = r.response
          /\ date' = r.date
          /\ object' = r.object
          /\ memo' = r.memo
          /\ queries' = r.queries
          /\ pc' = IF r.response = Proceed THEN "render" ELSE "done"
    /\ view' = v
    /\ kwargs' = [date |-> s, year |-> 0]
    /\ UNCHANGED <<store, next_pk, now, context, engine, todo, frame, changed>>

\* A request with a date in its URL.  default_to_current is read only when
\* there is none, so the view that sets it adds nothing here.
GetDated ==
    \E v \in {"ShowDetail", "ThisShowDetail"}, s \in DateStrings : Get(v, s)

\* A request without one
GetDefault == \E v \in DetailViews : Get(v, NoDateStr)

\* super().get(): DetailView.get sets self.object = self.get_object() and
\* builds the context, where get_context_data asks get_object() once more.
Render ==
    /\ pc = "render"
    /\ \E first \in {call_get_object(view, memo, date, store, now)} :
       \E second \in {call_get_object(view, first.cache, date, store, now)} :
          /\ object' = first.value
          /\ context' = [context EXCEPT !.show = second.value]
          /\ memo' = second.cache
          /\ queries' = queries + first.ran + second.ran
    /\ pc' = "done"
    /\ UNCHANGED <<store, next_pk, now, view, kwargs, date, response, engine,
                   todo, frame, changed>>

\* The response is sent and the view instance dropped.
Close ==
    /\ pc = "done"
    /\ pc' = "idle"
    /\ view' = "none"
    /\ kwargs' = NoKwargs
    /\ date' = None
    /\ memo' = EmptyMemo
    /\ object' = Nothing
    /\ response' = NoResponse
    /\ context' = NoContext
    /\ queries' = 0
    /\ engine' = "none"
    /\ todo' = << >>
    /\ frame' = NoFrame
    /\ changed' = FALSE
    /\ UNCHANGED <<store, next_pk, now>>

-----------------------------------------------------------------------------
(* ArchiveList *)

\* qs.order_by(field), or with descending order_by('-field'), as the
\* sequence of its rows
RECURSIVE order_by(_, _, _)
order_by(qs, field, descending) ==
    IF qs = {} THEN << >>
    ELSE LET e == First(qs, field, descending)
         IN <<e>> \o order_by(qs \ {e}, field, descending)

\* A get_queryset that leaves the current Show in.
get_queryset_keep_current(st, pk) == st

\* The rows of the queryset ArchiveList.get_queryset returned, when it is
\* evaluated on table st: all but the one whose pk was excluded.  pk is what
\* Show.current() gave when the queryset was built, and Nothing with
\* exclude_current off.
get_queryset(st, pk) == {e \in st : e.pk # pk}

\* .distinct('showtime__year') of rows ordered by year: the first row of
\* each year
RECURSIVE distinct_year(_)
distinct_year(rows) ==
    IF Len(rows) <= 1 THEN rows
    ELSE IF YearOf(rows[1]) = YearOf(rows[2])
         THEN distinct_year(<<rows[1]>> \o Tail(Tail(rows)))
         ELSE <<rows[1]>> \o distinct_year(Tail(rows))

\* .values_list('showtime__year', flat=True)
values_list_year(rows) == [i \in 1 .. Len(rows) |-> YearOf(rows[i])]

\* sorted(a set of numbers)
RECURSIVE sorted(_)
sorted(ns) ==
    IF ns = {} THEN << >>
    ELSE LET n == CHOOSE x \in ns : \A y \in ns : x <= y
         IN <<n>> \o sorted(ns \ {n})

\* set(a list)
set(seq) == {seq[i] : i \in 1 .. Len(seq)}

\* The native path without its distinct().
get_years_native_no_distinct(qs) ==
    values_list_year(order_by(qs, "showtime__year", FALSE))

\* Lines 161-164: the database does DISTINCT ON
get_years_native(qs) ==
    values_list_year(distinct_year(order_by(qs, "showtime__year", FALSE)))

\* Lines 165-168: NotSupportedError, so dedup and sort here
get_years_fallback(qs) ==
    sorted(set(values_list_year(order_by(qs, "showtime__year", FALSE))))

get_years(qs, native) ==
    IF native THEN get_years_native(qs) ELSE get_years_fallback(qs)

\* The queries a call of get_queryset() sends: Show.current(), at line 174.
\* The queryset it returns is lazy and sends its own query when evaluated.
queries_of_get_queryset(exclude_current) ==
    IF exclude_current THEN <<"current">> ELSE << >>

\* Those of get_years(): the try block builds its queryset and evaluates it;
\* where DISTINCT ON is not supported the evaluation raises before the
\* database is asked, and the except block builds another and evaluates that.
\* last names what is done with the list.
queries_of_get_years(native, exclude_current, last) ==
    queries_of_get_queryset(exclude_current)
        \o (IF native THEN << >> ELSE queries_of_get_queryset(exclude_current))
        \o <<last>>

\* Those of year(): latest() unless the URL has a year, then get_years().
queries_of_year(year_kw, native, exclude_current, last) ==
    (IF year_kw # 0 THEN << >>
     ELSE queries_of_get_queryset(exclude_current) \o <<"latest">>)
        \o queries_of_get_years(native, exclude_current, last)

\* Those of a request: BaseListView.get calls get_queryset() for
\* self.object_list, then get_context_data() calls get_years(), year(),
\* get_queryset() and year() again, and the template evaluates object_list.
queries_of_get(year_kw, native, exclude_current) ==
    queries_of_get_queryset(exclude_current)
        \o queries_of_get_years(native, exclude_current, "years")
        \o queries_of_year(year_kw, native, exclude_current, "check_year")
        \o (IF exclude_current THEN <<"current_listing">> ELSE << >>)
        \o queries_of_year(year_kw, native, exclude_current, "check_filter")
        \o <<"listing">>

\* One query of the request sent to table st at time t, and what the code
\* does with its answer before the next query: the frame and the context
\* after it, and the response once there is one.
\* latest('showtime') of an empty queryset raises Show.DoesNotExist, and
\* nothing at line 174 catches what Show.current() raises.
Answer(op, f, ctx, year_kw, native, st, t) ==
    LET qs == get_queryset(st, f.pk)
        years == get_years(qs, native)
        year == IF year_kw # 0 THEN year_kw ELSE f.year
        goes_on(f2, ctx2) ==
            [frame |-> f2, context |-> ctx2, response |-> NoResponse]
        raises(e) ==
            [frame |-> NoFrame, context |-> NoContext, response |-> e]
    IN CASE op = "current" ->
              IF current(st, t) = DoesNotExist
              THEN raises(RaisedDoesNotExist)
              ELSE goes_on([f EXCEPT !.pk = current(st, t).pk], ctx)
         [] op = "current_listing" ->
              IF current(st, t) = DoesNotExist
              THEN raises(RaisedDoesNotExist)
              ELSE goes_on([f EXCEPT !.listing_pk = current(st, t).pk], ctx)
         [] op = "years" ->
              goes_on([f EXCEPT !.pk = Nothing.pk],
                      [ctx EXCEPT !.years = years])
         [] op = "latest" ->
              IF qs = {} THEN raises(RaisedDoesNotExist)
              ELSE goes_on([f EXCEPT !.pk = Nothing.pk,
                                     !.year = YearOf(First(qs, "showtime",
                                                           TRUE))], ctx)
         [] op = "check_year" ->
              IF year \notin set(years) THEN raises(Raised404)
              ELSE goes_on([f EXCEPT !.pk = Nothing.pk, !.year = 0],
                           [ctx EXCEPT !.year = year])
         [] op = "check_filter" ->
              IF year \notin set(years) THEN raises(Raised404)
              ELSE goes_on([f EXCEPT !.pk = Nothing.pk, !.year = year], ctx)
         [] op = "listing" ->
              [frame |-> NoFrame,
               context |->
                   [ctx EXCEPT !.object_list =
                        order_by({e \in get_queryset(st, f.listing_pk) :
                                     YearOf(e) = f.year}, "showtime", TRUE)],
               response |-> Proceed]

\* The years a URL may name: those of the window, and the one before.
YearInputs == WindowYears \cup {WindowStart.year - 1}

\* A request reaches the view.
\* native: whether the database supports distinct(field)
\* exclude_current: the class attribute of the view
ArchiveGet ==
    /\ pc = "idle"
    /\ \E year_kw \in YearInputs \cup {0}, native \in BOOLEAN,
          exclude_current \in BOOLEAN :
          /\ view' = IF exclude_current THEN "ArchiveList"
                     ELSE "ArchiveListWithCurrent"
          /\ kwargs' = [date |-> NoDateStr, year |-> year_kw]
          /\ engine' = IF native THEN "native" ELSE "fallback"
          /\ todo' = queries_of_get(year_kw, native, exclude_current)
    /\ pc' = "archive"
    /\ UNCHANGED <<store, next_pk, now, date, memo, object, response, context,
                   queries, frame, changed>>

\* The request sends its next query and goes on to the one after, or
\* answers.
ArchiveQuery ==
    /\ pc = "archive"
    /\ \E r \in {Answer(Head(todo), frame, context, kwargs.year,
                        engine = "native", store, now)} :
          /\ frame' = r.frame
          /\ context' = r.context
          /\ response' = r.response
          /\ todo' = IF r.response = NoResponse THEN Tail(todo) ELSE << >>
          /\ pc' = IF r.response = NoResponse THEN "archive" ELSE "done"
    /\ queries' = queries + 1
    /\ UNCHANGED <<store, next_pk, now, view, kwargs, date, memo, object,
                   engine, changed>>

-----------------------------------------------------------------------------
(* What happens around a request: Shows come and go, time passes.  This    *)
(* code never writes the table; other processes do.                        *)

request == <<pc, view, kwargs, date, memo, object, response, context, queries,
             engine, todo, frame>>

StoreAdd ==
    /\ Cardinality(store) < MaxEpisodes
    /\ next_pk <= MaxPk
    /\ \E e \in Shows :
          /\ \A o \in store : ~Overlap(e, o)
          /\ store' = store \cup {Row(next_pk, e)}
    /\ next_pk' = next_pk + 1

StoreRemove == (\E e \in store : store' = store \ {e}) /\ UNCHANGED next_pk

ClockTick == now < Horizon /\ now' = now + 1

AddShow == pc = "idle" /\ StoreAdd /\ UNCHANGED <<now, request, changed>>

RemoveShow ==
    pc = "idle" /\ StoreRemove /\ UNCHANGED <<now, request, changed>>

Tick ==
    pc = "idle" /\ ClockTick /\ UNCHANGED <<store, next_pk, request, changed>>

\* The same, between get()'s own query and the rendering of its response,
\* and between one query of ArchiveList and the next.
Meanwhile ==
    /\ pc \in {"render", "archive"}
    /\ \/ StoreAdd /\ UNCHANGED now
       \/ StoreRemove /\ UNCHANGED now
       \/ ClockTick /\ UNCHANGED <<store, next_pk>>
    /\ changed' = TRUE
    /\ UNCHANGED request

Init ==
    /\ store = {}
    /\ next_pk = 1
    /\ now = 0
    /\ pc = "idle"
    /\ view = "none"
    /\ kwargs = NoKwargs
    /\ date = None
    /\ memo = EmptyMemo
    /\ object = Nothing
    /\ response = NoResponse
    /\ context = NoContext
    /\ queries = 0
    /\ engine = "none"
    /\ todo = << >>
    /\ frame = NoFrame
    /\ changed = FALSE

Around == AddShow \/ RemoveShow \/ Tick

\* The detail views, each request served in one piece
Next == Around \/ GetDated \/ GetDefault \/ Render \/ Close

Spec == Init /\ [][Next]_vars

\* The detail views, with the table and the clock changing under a request
NextMemo == Next \/ Meanwhile

SpecMemo == Init /\ [][NextMemo]_vars

\* The archive, with the table and the clock changing between its queries
NextArchive == Around \/ ArchiveGet \/ ArchiveQuery \/ Meanwhile \/ Close

SpecArchive == Init /\ [][NextArchive]_vars

-----------------------------------------------------------------------------
(* Properties.  Under Spec the table and the clock stand still from a      *)
(* request's first step to its Close, so a state with pc # "idle" shows a  *)
(* response next to the table it was computed from.  Under SpecArchive     *)
(* they stand still from the last query of a request to its Close, and     *)
(* from its first query on when changed is FALSE.                          *)

Detail == pc # "idle" /\ view \in DetailViews
Archived == pc = "done" /\ view \in {"ArchiveList", "ArchiveListWithCurrent"}

\* The instants of a calendar day of the window, by the day's place in it.
MidnightOf(d) == DayLen * (CHOOSE i \in Days : DateTable[i] = d)
OnDate(e, d) == e.showtime \in MidnightOf(d) .. (MidnightOf(d) + DayLen - 1)

IsoOf(d) == kwargs.date \in {strftime(d), UnpaddedString(d)}
LegacyOf(d) == kwargs.date = LegacyString(d)

\* The URL of a Show: its showtime's date, in ISO format
CanonicalUrl(e) == strftime(DateOf(e.showtime))

Ended == {e \in store : e.end < now}
InProgress == {e \in store : e.showtime <= now /\ now < e.end}

\* C1 as claimed: a request without a date for which a Show is found is
\* rendered, never redirected.
C1_NoDateProceeds ==
    (Detail /\ kwargs.date = NoDateStr /\ object # Nothing)
        => response = Proceed

\* C1 as amended: a request without a date for which a Show is found is
\* redirected to that Show's showtime date in ISO format, never rendered.
C1_NoDateRedirects ==
    (Detail /\ kwargs.date = NoDateStr /\ object # Nothing)
        => /\ response = redirect(CanonicalUrl(object))
           /\ pc = "done"

\* C1 witness: a request without a date found a Show and was redirected.
C1_Witness ==
    /\ Detail /\ kwargs.date = NoDateStr /\ object \in store
    /\ response.status = "Redirect"

\* C2: the canonical URL of any Show of the table is rendered, and the
\* target of a redirect is rendered when asked for: no redirect follows a
\* redirect.
C2_Idempotent ==
    /\ (Detail /\ \E e \in store : kwargs.date = CanonicalUrl(e))
          => response = Proceed
    /\ (Detail /\ response.status = "Redirect")
          => Resolve(view, response.location, store, now).response = Proceed

\* C3: a request for an ISO date finds every Show whose showtime is on that
\* day, and is rendered.
C3_ExactDate ==
    \A d \in WindowDates : \A e \in store :
        (Detail /\ IsoOf(d) /\ OnDate(e, d))
            => object = e /\ response = Proceed

\* C4: a date in the legacy format that finds a Show is redirected to the
\* Show's date in ISO format, and that URL finds the same Show.
C4_Legacy ==
    \A d \in WindowDates :
        (Detail /\ LegacyOf(d) /\ object # Nothing)
            => /\ response = redirect(CanonicalUrl(object))
               /\ Resolve(view, response.location, store, now).object = object

\* C5: a request for a day without a Show but with a later one finds the
\* Show with the smallest showtime after the day's midnight, and is
\* redirected to that Show's date.
C5_NextShow ==
    \A d \in WindowDates :
        LET later == {e \in store : e.showtime > MidnightOf(d)}
        IN (/\ Detail
            /\ IsoOf(d) \/ LegacyOf(d)
            /\ \A e \in store : ~OnDate(e, d)
            /\ later # {})
           => /\ object \in later
              /\ \A o \in later : object.showtime <= o.showtime
              /\ response = redirect(CanonicalUrl(object))
              /\ response.location # strftime(d)

\* C5 witness: a day without a Show was asked for, two Shows are later, and
\* the request was redirected.
C5_Witness ==
    \E d \in WindowDates :
        /\ Detail /\ (IsoOf(d) \/ LegacyOf(d))
        /\ \A e \in store : ~OnDate(e, d)
        /\ Cardinality({e \in store : e.showtime > MidnightOf(d)}) >= 2
        /\ response.status = "Redirect"

\* C6: without a date and without default_to_current, the Show found is
\* the one with the greatest end among those that ended before now, never
\* one in progress or to come; with no Show ended, the answer is 404.
C6_MostRecentCompleted ==
    (Detail /\ view = "ShowDetail" /\ kwargs.date = NoDateStr)
        => IF Ended = {}
           THEN response = Raised404 /\ object = Nothing
           ELSE /\ object \in Ended
                /\ \A o \in Ended : o.end <= object.end
                /\ object.end < now

\* C6 witness: a Show was found while another had not ended yet.
C6_Witness ==
    /\ Detail /\ view = "ShowDetail" /\ kwargs.date = NoDateStr
    /\ object \in Ended
    /\ \E e \in store : e.end >= now

\* C7: without a date, a view that defaults to the current Show finds the
\* Show in progress, or else the last one ended; never one that has not
\* started, and never 404 while a Show has ended.
C7_InProgressOrCompleted ==
    (Detail /\ view \in {"DefaultToCurrent", "ThisShowDetail"}
            /\ kwargs.date = NoDateStr)
        => /\ InProgress # {} => object \in InProgress
           /\ (InProgress = {} /\ Ended # {})
                 => object \in Ended /\ \A o \in Ended : o.end <= object.end
           /\ object # Nothing => object.showtime <= now
           /\ Ended # {} => response # Raised404

StrictlyAscending(seq) ==
    \A i \in 1 .. Len(seq) : \A j \in 1 .. Len(seq) : i < j => seq[i] < seq[j]

\* One step of the archive, as C8 wants it.
C8_Step ==
    (/\ pc = "archive"
     /\ Head(todo) \in {"years", "check_year", "check_filter"}
     /\ todo' # todo)
        => LET qs == get_queryset(store, frame.pk)
               year == IF kwargs.year # 0 THEN kwargs.year ELSE frame.year
           IN /\ get_years_native(qs) = get_years_fallback(qs)
              /\ StrictlyAscending(get_years(qs, engine = "native"))
              /\ set(get_years(qs, engine = "native")) =
                     {DateOf(e.showtime).year : e \in qs}
              /\ Head(todo) = "years"
                    => /\ context'.years = get_years_native(qs)
                       /\ context'.years = get_years_fallback(qs)
              /\ Head(todo) # "years"
                    => (response' = Raised404
                           <=> year \notin set(get_years_fallback(qs)))

\* C8: whenever get_years asks the table, its two paths give the same
\* sequence for the rows asked, strictly ascending, of exactly the years of
\* those rows' showtimes; that sequence is the one put into the context and
\* the one year() looks the year up in.
C8_YearsAgree == [][C8_Step]_vars

\* C8 witness: the years were listed from Shows of two years, two of them
\* in one year.
C8_Witness ==
    /\ pc = "archive" /\ Len(context.years) = 2
    /\ set(context.years) = {DateOf(e.showtime).year : e \in store}
    /\ \E y \in set(context.years) :
          Cardinality({e \in store \ InProgress :
                          DateOf(e.showtime).year = y}) >= 2

C10_Step ==
    \* a later get_object call returns what the first returned, and asks
    \* the table nothing
    /\ (pc = "render" /\ pc' = "done")
          => /\ object' = object
             /\ context'.show = object
             /\ queries' = queries
    \* the table is asked at most once in a request
    /\ queries' <= 1
    \* a failed lookup caches nothing
    /\ (view' \in DetailViews /\ response' = Raised404) => memo' = EmptyMemo
    \* a new request starts without a cache: what it finds is in the table
    /\ pc' = "idle" => memo' = EmptyMemo
    /\ (pc = "idle" /\ pc' # "idle" /\ object' # Nothing) => object' \in store

\* C10: in one request the Show table is queried at most once; later
\* get_object calls return the Show the first call returned though the
\* table and the clock changed; a failed lookup caches nothing; no request
\* sees the Show an earlier request cached.
C10_MemoizedOnce == [][C10_Step]_vars

\* C10 witness: a response was rendered with the Show found first, while a
\* new query would find another.
C10_Witness ==
    /\ pc = "done" /\ view \in DetailViews /\ response = Proceed
    /\ context.show = object
    /\ LocateShow(view, date, store, now) # object

====
